---- MODULE Spec2Model ----
(***************************************************************************)
(* Model of the MainWindow controller of the Ultrasound GUI                *)
(* (src/mainwindow.cpp): the capture session driven by csvTimer, the CSV   *)
(* file, the trigger (Pico) port, the sensor (HC06) port with readData,    *)
(* and the zero offsets.  One action per slot / handler.                   *)
(***************************************************************************)
EXTENDS Integers, Sequences, FiniteSets, TLC

VARIABLES
    serialPort,     \* _serialPort: "null" (nullptr) or "open"
    picoPort,       \* Pico_Port:   "null" (nullptr) or "open"
    buffer,         \* the static QByteArray of readData
    botLeftNum,     \* ui->botLeftNum->value()
    topLeftNum,     \* ui->topLeftNum->value()
    topRightNum,    \* ui->topRightNum->value()
    zeroBotLeft,
    zeroTopLeft,
    zeroTopRight,
    csvRunning,     \* bool csvRunning
    csvFileOpen,    \* csvFile.isOpen()
    csvHeader,      \* header lines in the file csvFile names
    csvRows,        \* data rows in the file csvFile names
    csvTimer,       \* the QTimer csvTimer points to, with its lambda's captures
    prevTimer,      \* the QTimer the last start replaced
    progressMax,    \* ui->progressBar->maximum()
    progressValue,  \* ui->progressBar->value()
    triggerBytes,   \* bytes written to Pico_Port since the last accepted start
    lastRaw,        \* history: raw triple of the last displayed frame, <<>> if none
    lastOp          \* history: the handler that ran last, with its outcome

sensorVars  == <<serialPort, buffer, botLeftNum, topLeftNum, topRightNum,
                 zeroBotLeft, zeroTopLeft, zeroTopRight, lastRaw>>
captureVars == <<csvRunning, csvFileOpen, csvHeader, csvRows, csvTimer,
                 prevTimer, progressMax, progressValue, triggerBytes>>
vars == <<serialPort, picoPort, buffer, botLeftNum, topLeftNum, topRightNum,
          zeroBotLeft, zeroTopLeft, zeroTopRight, csvRunning, csvFileOpen,
          csvHeader, csvRows, csvTimer, prevTimer, progressMax, progressValue,
          triggerBytes, lastRaw, lastOp>>

----------------------------------------------------------------------------
(* Bounds *)

MaxDuration == 2      \* largest capture length (seconds) tried
MaxOffset   == 70     \* zeroing is tried while the offsets stay within +-MaxOffset
MaxReadLen  == 5      \* longest read (bytes) enumerated exhaustively for the parser

----------------------------------------------------------------------------
(* qRound, qMax and the capture parameters *)

\* a frame rate is the rational n/d, d > 0; a duration is an integer
FpsValues == { <<0, 1>>, <<1, 4>>, <<1, 1>> }
Durations == 0 .. MaxDuration

\* qRound(double) on the rational n/d (d > 0): nearest integer, halves away from zero
qRound(n, d) ==
    IF n >= 0 THEN (2 * n + d) \div (2 * d)
              ELSE -((2 * (-n) + d) \div (2 * d))

qMax(a, b) == IF a < b THEN b ELSE a

\* int totalFrames = qRound(fps * duration)
TotalFrames(fps, duration) == qRound(fps[1] * duration, fps[2])

\* int intervalMs = qMax(1, qRound(1000.0 / fps)), for fps > 0 and 1000/fps
\* within the range of int
IntervalMs(fps) == qMax(1, qRound(1000 * fps[2], fps[1]))

\* the frame rates tried for the timer interval: 1e-8 (the smallest value the
\* spin box takes), 1e-6, 1/4, 1/2, 1, 3, 400, 2000/3, 1000 (the largest value
\* the spin box takes) and 1000000
IntervalRates ==
    { <<1, 100000000>>, <<1, 1000000>>, <<1, 4>>, <<1, 2>>, <<1, 1>>, <<3, 1>>,
      <<400, 1>>, <<2000, 3>>, <<1000, 1>>, <<1000000, 1>> }

----------------------------------------------------------------------------
(* Text of a read: QByteArray -> QString -> trimmed -> split(",") -> toInt *)

Digits == {"0", "1", "2", "3", "4", "5", "6", "7", "8", "9"}
Spaces == {" ", "\n"}

DigitVal(c) ==
    CASE c = "0" -> 0
      [] c = "1" -> 1
      [] c = "2" -> 2
      [] c = "3" -> 3
      [] c = "4" -> 4
      [] c = "5" -> 5
      [] c = "6" -> 6
      [] c = "7" -> 7
      [] c = "8" -> 8
      [] c = "9" -> 9

\* the range of int
IntMax == 2147483647
IntMin == -IntMax - 1

RECURSIVE TrimLeft(_)
TrimLeft(s) ==
    IF s # <<>> /\ Head(s) \in Spaces THEN TrimLeft(Tail(s)) ELSE s

RECURSIVE TrimRight(_)
TrimRight(s) ==
    IF s # <<>> /\ s[Len(s)] \in Spaces
    THEN TrimRight(SubSeq(s, 1, Len(s) - 1))
    ELSE s

\* QString::trimmed()
trimmed(s) == TrimRight(TrimLeft(s))

\* QString::split(","): empty parts are kept, so there is always one item
RECURSIVE split(_)
split(s) ==
    IF \E i \in 1 .. Len(s) : s[i] = ","
    THEN LET i == CHOOSE k \in 1 .. Len(s) :
                      s[k] = "," /\ \A j \in 1 .. (k - 1) : s[j] # ","
         IN  <<SubSeq(s, 1, i - 1)>> \o split(SubSeq(s, i + 1, Len(s)))
    ELSE <<s>>

RECURSIVE DecimalValue(_)
DecimalValue(ds) ==
    IF ds = <<>> THEN 0
    ELSE 10 * DecimalValue(SubSeq(ds, 1, Len(ds) - 1)) + DigitVal(ds[Len(ds)])

\* QString::toInt(&ok): surrounding whitespace is skipped, an optional sign,
\* then decimal digits only; ok is false (and the value 0) otherwise or when
\* the value does not fit an int
toInt(item) ==
    LET t      == trimmed(item)
        signed == t # <<>> /\ Head(t) \in {"-", "+"}
        ds     == IF signed THEN Tail(t) ELSE t
        wellF  == ds # <<>> /\ \A i \in 1 .. Len(ds) : ds[i] \in Digits
        mag    == IF wellF THEN DecimalValue(ds) ELSE 0
        v      == IF signed /\ Head(t) = "-" THEN -mag ELSE mag
    IN  IF wellF /\ v >= IntMin /\ v <= IntMax
        THEN [ok |-> TRUE, val |-> v]
        ELSE [ok |-> FALSE, val |-> 0]

----------------------------------------------------------------------------
(* Reads delivered by the sensor port *)

F50     == <<"5","0",",","5","0",",","5","0">>              \* "50,50,50"
F70     == <<"7","0",",","5","0",",","5","0">>              \* "70,50,50"
FMixed  == <<"5","0",",","7","0",",","5","\n">>             \* "50,70,5\n"
FNeg    == <<"-","1",","," ","2",",","1">>                  \* "-1, 2,1"
FAlpha  == <<"1","2",",","a","b",",","7">>                  \* "12,ab,7"
FTwo    == <<"5","0",",","7","0">>                          \* "50,70"
FFour   == <<"5",",","5",",","5",",","5">>                  \* "5,5,5,5"

\* the frame "1,2,34", and the two reads that deliver it when the port hands
\* it over in two parts
FWhole  == <<"1",",","2",",","3","4">>                      \* "1,2,34"
FLead   == <<"1",",","2",",","3">>                          \* "1,2,3"
FTail   == <<"4">>                                          \* "4"
SplitReads == {FWhole, FLead, FTail}

\* the reads tried together with the capture session
SampleReads == {F70, FAlpha, FTwo}

\* the reads tried on the sensor side alone
SensorReads == {F50, F70, FMixed, FNeg, FAlpha, FTwo, FFour}

\* every read of at most MaxReadLen bytes over this alphabet
ReadAlphabet == {"1", ",", "a", " "}
ShortReads ==
    UNION { [1 .. n -> ReadAlphabet] : n \in 0 .. MaxReadLen }

AllReads == ShortReads \cup SensorReads \cup SplitReads

----------------------------------------------------------------------------
(* Timers *)

\* 1000.0 / fps lies beyond the range of int (exact for the rates tried here,
\* whose quotient d/n is either far above or far below IntMax / 1000)
IntervalOverflows(fps) == fps[2] \div fps[1] > IntMax \div 1000

\* the values intervalMs can take. qRound converts d + 0.5 to int; for a double
\* beyond the range of int that conversion is undefined: builds give INT_MIN
\* (x86 cvttsd2si) or INT_MAX (saturating conversion), and qMax(1, .) follows
IntervalMsOutcomes(fps) ==
    IF IntervalOverflows(fps) THEN { qMax(1, IntMin), qMax(1, IntMax) }
                              ELSE { IntervalMs(fps) }

\* no QTimer object (nullptr, or deleted)
NullTimer ==
    [exists |-> FALSE, active |-> FALSE, due |-> FALSE,
     framesCaptured |-> 0, totalFrames |-> 0, intervalMs |-> 0]

\* new QTimer(this) with the lambda capturing framesCaptured = 0 and
\* totalFrames by value, then start(intervalMs)
NewTimer(total, interval) ==
    [exists |-> TRUE, active |-> TRUE, due |-> FALSE,
     framesCaptured |-> 0, totalFrames |-> total, intervalMs |-> interval]

TimerStopIgnored(t) == t

\* QTimer::stop(): the timer is disarmed, a timeout that is due is never delivered
TimerStop(t) == IF t.exists THEN [t EXCEPT !.active = FALSE] ELSE t

ReplacedTimerLeaked(t) == t

\* start() lines 116-119: the old timer is stopped and deleted (deleteLater)
ReplacedTimer(t) == NullTimer

----------------------------------------------------------------------------
(* Initial state: after the constructor *)

Init ==
    /\ serialPort = "null"
    /\ picoPort = "null"
    /\ buffer = <<>>
    /\ botLeftNum = 0 /\ topLeftNum = 0 /\ topRightNum = 0
    /\ zeroBotLeft = 0 /\ zeroTopLeft = 0 /\ zeroTopRight = 0
    /\ csvRunning = FALSE
    /\ csvFileOpen = FALSE
    /\ csvHeader = 0
    /\ csvRows = <<>>
    /\ csvTimer = NullTimer
    /\ prevTimer = NullTimer
    /\ progressMax = 100
    /\ progressValue = 0
    /\ triggerBytes = 0
    /\ lastRaw = <<>>
    /\ lastOp = "init"

----------------------------------------------------------------------------
(* Sensor side *)

\* resetValues(): offsets and displays back to 0
resetValuesKeepsOffsets ==
    /\ UNCHANGED <<zeroTopLeft, zeroTopRight, zeroBotLeft>>
    /\ botLeftNum' = 0 /\ topLeftNum' = 0 /\ topRightNum' = 0
    /\ lastRaw' = <<>>

resetValues ==
    /\ zeroTopLeft' = 0 /\ zeroTopRight' = 0 /\ zeroBotLeft' = 0
    /\ botLeftNum' = 0 /\ topLeftNum' = 0 /\ topRightNum' = 0
    /\ lastRaw' = <<>>

FrameAcceptedUnchecked(items) ==
    /\ Len(items) = 3
    /\ toInt(items[1]).ok /\ toInt(items[3]).ok

\* readData() lines 251-259: three items, and all three conversions succeeded
FrameAccepted(items) ==
    /\ Len(items) = 3
    /\ toInt(items[1]).ok /\ toInt(items[2]).ok /\ toInt(items[3]).ok

DisplayedRaw(raw, offset) == raw

\* readData() lines 260-262: the value put on a display
Displayed(raw, offset) == raw - offset

\* readData(): the readyRead slot, for one read of bytes p
readData(p) ==
    /\ serialPort = "open"
    /\ LET data  == trimmed(buffer \o p)
           items == split(data)
           bl    == toInt(items[1])
           tl    == toInt(items[2])
           tr    == toInt(items[3])
       IN  IF FrameAccepted(items)
           THEN /\ botLeftNum'  = Displayed(bl.val, zeroBotLeft)
                /\ topLeftNum'  = Displayed(tl.val, zeroTopLeft)
                /\ topRightNum' = Displayed(tr.val, zeroTopRight)
                /\ lastRaw' = <<bl.val, tl.val, tr.val>>
                /\ lastOp' = "read_ok"
           ELSE /\ UNCHANGED <<botLeftNum, topLeftNum, topRightNum, lastRaw>>
                /\ lastOp' = "read_drop"
    /\ buffer' = <<>>
    /\ UNCHANGED <<serialPort, picoPort, zeroBotLeft, zeroTopLeft, zeroTopRight>>
    /\ UNCHANGED captureVars

InOffsetRange(v) == v >= -MaxOffset /\ v <= MaxOffset

ZeroedAbsolute(offset, shown) == shown

\* on_btnZero_clicked() lines 273-275: offset += the value the display shows
Zeroed(offset, shown) == offset + shown

\* on_btnZero_clicked()
on_btnZero_clicked ==
    /\ InOffsetRange(zeroBotLeft + botLeftNum)
    /\ InOffsetRange(zeroTopLeft + topLeftNum)
    /\ InOffsetRange(zeroTopRight + topRightNum)
    /\ zeroBotLeft'  = Zeroed(zeroBotLeft, botLeftNum)
    /\ zeroTopLeft'  = Zeroed(zeroTopLeft, topLeftNum)
    /\ zeroTopRight' = Zeroed(zeroTopRight, topRightNum)
    /\ lastOp' = "zero"
    /\ UNCHANGED <<serialPort, picoPort, buffer, botLeftNum, topLeftNum,
                   topRightNum, lastRaw>>
    /\ UNCHANGED captureVars

\* on_btnOpenPort_clicked(): reset, drop the old port, open a new one
on_btnOpenPort_clicked ==
    /\ resetValues
    /\ \E opened \in BOOLEAN :
          IF opened
          THEN serialPort' = "open" /\ lastOp' = "open_ok"
          ELSE serialPort' = "null" /\ lastOp' = "open_fail"
    /\ UNCHANGED <<picoPort, buffer>>
    /\ UNCHANGED captureVars

on_PicoButton_clickedResets ==
    /\ \E opened \in BOOLEAN :
          IF opened
          THEN picoPort' = "open" /\ lastOp' = "pico_ok"
          ELSE picoPort' = "null" /\ lastOp' = "pico_fail"
    /\ resetValues
    /\ UNCHANGED <<serialPort, buffer>>
    /\ UNCHANGED captureVars

\* on_PicoButton_clicked(): drop the old trigger port, open a new one
on_PicoButton_clicked ==
    /\ \E opened \in BOOLEAN :
          IF opened
          THEN picoPort' = "open" /\ lastOp' = "pico_ok"
          ELSE picoPort' = "null" /\ lastOp' = "pico_fail"
    /\ UNCHANGED sensorVars
    /\ UNCHANGED captureVars

\* on_btnClosPort_clicked(): close and forget both ports
on_btnClosPort_clicked ==
    /\ IF serialPort # "null"
       THEN serialPort' = "null" /\ resetValues
       ELSE UNCHANGED <<serialPort, botLeftNum, topLeftNum, topRightNum,
                        zeroBotLeft, zeroTopLeft, zeroTopRight, lastRaw>>
    /\ picoPort' = "null"
    /\ lastOp' = "close"
    /\ UNCHANGED buffer
    /\ UNCHANGED captureVars

----------------------------------------------------------------------------
(* Capture side *)

\* QProgressBar::setValue(v): ignored when v is outside the range, unless the
\* range is the "busy" range 0..0
ProgressSetValue(max, old, v) ==
    IF (v > max \/ v < 0) /\ max # 0 THEN old ELSE v

\* the line writeCsvData() streams out (the timestamp column is not modelled)
CsvRow ==
    <<topLeftNum, topRightNum, botLeftNum,
      topLeftNum + zeroTopLeft, topRightNum + zeroTopRight,
      botLeftNum + zeroBotLeft>>

\* writeCsvData(): the rows of the file after the call
writeCsvData ==
    IF ~csvRunning \/ ~csvFileOpen THEN csvRows ELSE Append(csvRows, CsvRow)

stopCsvRecordingKeepsFile ==
    /\ csvRunning' = FALSE
    /\ UNCHANGED csvFileOpen

\* stopCsvRecording(): flag cleared, file closed if open
stopCsvRecording ==
    /\ csvRunning' = FALSE
    /\ csvFileOpen' = FALSE

\* startCsvRecording(): csvFile is pointed at a new, timestamp-named file
\* (QFile::setFileName closes the file it had open); when the open fails the
\* function returns early and csvRunning keeps its value
startCsvRecording(opens) ==
    IF opens
    THEN /\ csvFileOpen' = TRUE
         /\ csvHeader' = 1
         /\ csvRows' = <<>>
         /\ csvRunning' = TRUE
    ELSE /\ csvFileOpen' = FALSE
         /\ csvHeader' = 0
         /\ csvRows' = <<>>
         /\ UNCHANGED csvRunning

InvalidInputFpsOnly(fps, duration) == fps[1] <= 0

\* the input check of on_btnStart_clicked()
InvalidInput(fps, duration) == fps[1] <= 0 \/ duration <= 0

\* on_btnStart_clicked() with the values of the two spin boxes; opens tells
\* whether the CSV file can be created
on_btnStart_clicked(fps, duration, opens) ==
    IF InvalidInput(fps, duration)
    THEN /\ lastOp' = "start_invalid"
         /\ UNCHANGED <<picoPort, sensorVars, captureVars>>
    ELSE /\ startCsvRecording(opens)
         /\ progressMax' = TotalFrames(fps, duration)
         /\ progressValue' = 0
         /\ prevTimer' = IF csvTimer.exists THEN ReplacedTimer(csvTimer)
                                            ELSE prevTimer
         /\ \E interval \in IntervalMsOutcomes(fps) :
               csvTimer' = NewTimer(TotalFrames(fps, duration), interval)
         /\ triggerBytes' = 0
         /\ lastOp' = IF ~opens THEN "start_csvfail"
                      ELSE IF csvTimer.active THEN "restart_ok" ELSE "start_ok"
         /\ UNCHANGED <<picoPort, sensorVars>>

PicoWriteUnguarded(port, sent) == sent + 1

\* the lambda's lines 138-140: one byte "1" goes out when Pico_Port is set
\* and open
PicoWrite(port, sent) == IF port = "open" THEN sent + 1 ELSE sent

BudgetExhaustedLate(t) == t.framesCaptured > t.totalFrames

\* the lambda's first test: all frames of the session are captured
BudgetExhausted(t) == t.framesCaptured >= t.totalFrames

\* the interval of an armed timer elapses: its timeout is due
TimerExpire(slot) ==
    /\ LET t == IF slot = "csv" THEN csvTimer ELSE prevTimer
       IN  /\ t.active /\ ~t.due
           /\ IF slot = "csv"
              THEN csvTimer' = [t EXCEPT !.due = TRUE] /\ UNCHANGED prevTimer
              ELSE prevTimer' = [t EXCEPT !.due = TRUE] /\ UNCHANGED csvTimer
    /\ lastOp' = "timer_due"
    /\ UNCHANGED <<picoPort, sensorVars>>
    /\ UNCHANGED <<csvRunning, csvFileOpen, csvHeader, csvRows, progressMax,
                   progressValue, triggerBytes>>

\* the lambda connected to QTimer::timeout in on_btnStart_clicked(), run for
\* the timer in the given slot; csvTimer in its body is the member, read when
\* the lambda runs
Timeout(slot) ==
    LET t     == IF slot = "csv" THEN csvTimer ELSE prevTimer
        fired == [t EXCEPT !.due = FALSE]
    IN  /\ t.active /\ t.due
        /\ IF BudgetExhausted(t)
           THEN /\ IF slot = "csv"
                   THEN csvTimer' = TimerStop(fired) /\ UNCHANGED prevTimer
                   ELSE csvTimer' = TimerStop(csvTimer) /\ prevTimer' = fired
                /\ stopCsvRecording
                /\ lastOp' = "tick_done"
                /\ UNCHANGED <<csvHeader, csvRows, progressMax, progressValue,
                               triggerBytes>>
           ELSE /\ csvRows' = writeCsvData
                /\ triggerBytes' = PicoWrite(picoPort, triggerBytes)
                /\ LET counted ==
                          [fired EXCEPT !.framesCaptured = @ + 1]
                   IN  /\ IF slot = "csv"
                          THEN csvTimer' = counted /\ UNCHANGED prevTimer
                          ELSE prevTimer' = counted /\ UNCHANGED csvTimer
                       /\ progressValue' =
                            ProgressSetValue(progressMax, progressValue,
                                             counted.framesCaptured)
                /\ lastOp' = "tick_frame"
                /\ UNCHANGED <<csvRunning, csvFileOpen, csvHeader, progressMax>>
        /\ UNCHANGED <<picoPort, sensorVars>>

on_btnStop_clickedResetsProgress ==
    /\ csvTimer' = TimerStop(csvTimer)
    /\ stopCsvRecording
    /\ progressValue' = 0
    /\ lastOp' = "stop"
    /\ UNCHANGED <<picoPort, sensorVars>>
    /\ UNCHANGED <<csvHeader, csvRows, prevTimer, progressMax, triggerBytes>>

\* on_btnStop_clicked()
on_btnStop_clicked ==
    /\ csvTimer' = TimerStop(csvTimer)
    /\ stopCsvRecording
    /\ lastOp' = "stop"
    /\ UNCHANGED <<picoPort, sensorVars>>
    /\ UNCHANGED <<csvHeader, csvRows, prevTimer, progressMax, progressValue,
                   triggerBytes>>

----------------------------------------------------------------------------
(* The controller *)

TimerSlots == {"csv", "prev"}

Next ==
    \/ \E fps \in FpsValues, duration \in Durations, opens \in BOOLEAN :
          on_btnStart_clicked(fps, duration, opens)
    \/ \E slot \in TimerSlots : TimerExpire(slot)
    \/ \E slot \in TimerSlots : Timeout(slot)
    \/ on_btnStop_clicked
    \/ \E p \in SampleReads : readData(p)
    \/ on_btnZero_clicked
    \/ on_btnOpenPort_clicked
    \/ on_PicoButton_clicked
    \/ on_btnClosPort_clicked

Spec == Init /\ [][Next]_vars

\* the sensor side alone, with more kinds of frames
NextSensor ==
    \/ \E p \in SensorReads : readData(p)
    \/ on_btnZero_clicked
    \/ on_btnOpenPort_clicked
    \/ on_btnClosPort_clicked

SensorSpec == Init /\ [][NextSensor]_vars

\* readData alone on every short read, from the states reached by opening the
\* port, accepting one frame and zeroing on it
InitOffsets ==
    { <<0, 0, 0>>, <<50, 50, 50>>, <<70, 50, 50>>, <<50, 70, 5>>,
      <<-1, 2, 1>>, <<1, 1, 1>>, <<1, 0, 0>>, <<0, 1, 0>>, <<0, 0, 1>>,
      <<11, 1, 1>> }

InitRead ==
    /\ serialPort = "open"
    /\ picoPort = "null"
    /\ buffer = <<>>
    /\ \E f \in InitOffsets :
          /\ botLeftNum = f[1] /\ topLeftNum = f[2] /\ topRightNum = f[3]
          /\ zeroBotLeft = f[1] /\ zeroTopLeft = f[2] /\ zeroTopRight = f[3]
          /\ lastRaw = f
    /\ csvRunning = FALSE
    /\ csvFileOpen = FALSE
    /\ csvHeader = 0
    /\ csvRows = <<>>
    /\ csvTimer = NullTimer
    /\ prevTimer = NullTimer
    /\ progressMax = 100
    /\ progressValue = 0
    /\ triggerBytes = 0
    /\ lastOp = "zero"

NextRead == \E p \in AllReads : readData(p)

ReadSpec == InitRead /\ [][NextRead]_vars

\* start and stop alone, over the frame rates tried for the timer interval
NextInterval ==
    \/ \E fps \in IntervalRates, duration \in Durations, opens \in BOOLEAN :
          on_btnStart_clicked(fps, duration, opens)
    \/ on_btnStop_clicked

IntervalSpec == Init /\ [][NextInterval]_vars

\* the capture session under a timer that keeps firing while it is armed
TimerFires == \E slot \in TimerSlots : TimerExpire(slot)
TimeoutRuns == \E slot \in TimerSlots : Timeout(slot)

LiveSpec == Spec /\ WF_vars(TimerFires) /\ WF_vars(TimeoutRuns)

----------------------------------------------------------------------------
(* Properties *)

OpenedStarts == {"start_ok", "restart_ok"}
StartOps == OpenedStarts \cup {"start_csvfail"}
TickOps  == {"tick_frame", "tick_done"}

\* x - 1/2 < n <= x + 1/2 for x = fps * duration: n is x rounded to the
\* nearest integer, halves upwards
NearestInteger(n, fps, duration) ==
    /\ 2 * fps[1] * duration - fps[2] < 2 * n * fps[2]
    /\ 2 * n * fps[2] <= 2 * fps[1] * duration + fps[2]

\* C1: a start with fps > 0 and duration > 0 that opened its file has written
\* the header row and no data row; the data rows never outnumber the timer's
\* totalFrames, which is round(fps * duration); and when the timer's lambda
\* has ended the session on its own the file holds exactly totalFrames rows.
C1_ExactlyTargetRows ==
    /\ \A fps \in FpsValues, duration \in Durations :
          fps[1] > 0 /\ duration > 0 =>
             NearestInteger(TotalFrames(fps, duration), fps, duration)
    /\ (lastOp \in OpenedStarts => csvHeader = 1 /\ csvRows = <<>>)
    /\ (lastOp \in StartOps =>
          \E fps \in FpsValues, duration \in Durations :
             /\ fps[1] > 0 /\ duration > 0
             /\ NearestInteger(csvTimer.totalFrames, fps, duration))
    /\ Len(csvRows) <= csvTimer.totalFrames
    /\ (lastOp = "tick_done" /\ csvHeader = 1 =>
          /\ Len(csvRows) = csvTimer.totalFrames
          /\ ~csvTimer.active /\ ~csvFileOpen /\ ~csvRunning)

C1_Witness ==
    /\ lastOp = "tick_done" /\ csvHeader = 1
    /\ csvTimer.totalFrames = 2 /\ Len(csvRows) = 2

\* C2: after a start whose CSV file could not be opened no timer is armed,
\* and no trigger byte or progress is produced for that attempt.
C2_OpenFailureAbortsStart ==
    lastOp = "start_csvfail" => ~csvTimer.active

\* C3: stop() leaves the rows as they are, the timer disarmed and the file
\* closed; and while the file is closed no row is appended by anything but a
\* later start, which begins a new file.
C3_NoRowAfterStop ==
    [][ /\ (lastOp' = "stop" =>
              /\ csvRows' = csvRows /\ csvHeader' = csvHeader
              /\ ~csvFileOpen' /\ ~csvRunning' /\ ~csvTimer'.active)
        /\ (~csvFileOpen /\ lastOp' \notin StartOps =>
              csvRows' = csvRows /\ csvHeader' = csvHeader /\ ~csvFileOpen')
      ]_vars

\* stop() arrived while a timeout was due, with 1 of 2 rows written
C3_Witness ==
    /\ lastOp = "stop" /\ csvTimer.due /\ ~csvTimer.active
    /\ csvTimer.totalFrames = 2 /\ Len(csvRows) = 1 /\ csvHeader = 1

\* C4: a start that opens its file while a timer is armed leaves the new timer
\* armed with its counter at 0, the old timer disarmed, the new file open and
\* empty; the replaced timer is never armed, so it never fires again.
C4_RestartLeavesOneSession ==
    [][ /\ (csvTimer.active /\ lastOp' \in OpenedStarts =>
              /\ csvTimer'.active /\ csvTimer'.framesCaptured = 0
              /\ ~prevTimer'.active
              /\ csvFileOpen' /\ csvRunning' /\ csvRows' = <<>>
              /\ progressValue' = 0 /\ triggerBytes' = 0)
        /\ ~prevTimer'.active
      ]_vars

\* a second start, made while the first session's timer was armed
C4_Witness ==
    /\ lastOp = "restart_ok" /\ csvTimer.active /\ csvFileOpen
    /\ csvTimer.framesCaptured = 0 /\ csvRows = <<>>

\* C5: every row appended while a frame has been displayed carries, in its
\* three "w/o Zero" columns, the raw values of the last accepted frame.
C5_RawColumnsAreRaw ==
    [][ Len(csvRows') = Len(csvRows) + 1 /\ lastRaw # <<>> =>
          LET row == csvRows'[Len(csvRows')]
          IN  /\ row[4] = lastRaw[2]
              /\ row[5] = lastRaw[3]
              /\ row[6] = lastRaw[1]
      ]_vars

\* C6 as amended: on the bottom-left axis, with reading 50 shown at offset 0,
\* zero makes the offset 50 (the display keeps showing 50 until the next
\* frame, which shows 0 for reading 50 and 20 for reading 70); zero with 20
\* shown at offset 50 makes the offset 70, and reading 70 then shows 0.
C6_ZeroingScenario ==
    [][ /\ (zeroBotLeft = 0 /\ botLeftNum = 50 /\ lastOp' = "zero" =>
              zeroBotLeft' = 50 /\ botLeftNum' = 50)
        /\ (zeroBotLeft = 50 /\ lastOp' = "read_ok" /\ lastRaw'[1] = 50 =>
              zeroBotLeft' = 50 /\ botLeftNum' = 0)
        /\ (zeroBotLeft = 50 /\ lastOp' = "read_ok" /\ lastRaw'[1] = 70 =>
              zeroBotLeft' = 50 /\ botLeftNum' = 20)
        /\ (zeroBotLeft = 50 /\ botLeftNum = 20 /\ lastOp' = "zero" =>
              zeroBotLeft' = 70 /\ botLeftNum' = 20)
        /\ (zeroBotLeft = 70 /\ lastOp' = "read_ok" /\ lastRaw'[1] = 70 =>
              zeroBotLeft' = 70 /\ botLeftNum' = 0)
      ]_vars

\* the second zero of the scenario has just run: reading 70, 20 shown
C6_Witness ==
    /\ lastOp = "zero" /\ lastRaw # <<>> /\ lastRaw[1] = 70
    /\ zeroBotLeft = 70 /\ botLeftNum = 20

\* C6 as written: zero at reading 50 gives offset 50 and shows 0; reading 70
\* then shows 20; zero again gives offset 120 and shows 0.
C6_AsWritten ==
    [][ /\ (zeroBotLeft = 0 /\ botLeftNum = 50 /\ lastOp' = "zero" =>
              zeroBotLeft' = 50 /\ botLeftNum' = 0)
        /\ (zeroBotLeft = 50 /\ lastOp' = "read_ok" /\ lastRaw'[1] = 70 =>
              botLeftNum' = 20)
        /\ (zeroBotLeft = 50 /\ botLeftNum = 20 /\ lastOp' = "zero" =>
              zeroBotLeft' = 120 /\ botLeftNum' = 0)
      ]_vars

\* C7: a zero step adds to each offset the value its display shows and
\* changes nothing else.
C7_ZeroAddsDisplayed ==
    [][ lastOp' = "zero" =>
          /\ zeroBotLeft' = zeroBotLeft + botLeftNum
          /\ zeroTopLeft' = zeroTopLeft + topLeftNum
          /\ zeroTopRight' = zeroTopRight + topRightNum
          /\ UNCHANGED <<botLeftNum, topLeftNum, topRightNum, lastRaw,
                         serialPort, picoPort, buffer>>
          /\ UNCHANGED captureVars
      ]_vars

\* a second zero in a row on an unchanged display: the offsets compound
C7_Witness ==
    /\ lastOp = "zero" /\ lastRaw # <<>>
    /\ botLeftNum # 0 /\ zeroBotLeft # 0
    /\ zeroBotLeft + botLeftNum # lastRaw[1]
    /\ zeroBotLeft # lastRaw[1]

\* C8: a start with fps <= 0 or duration <= 0 changes nothing but the report
\* of the invalid input.
C8_InvalidStartChangesNothing ==
    [][ \A fps \in FpsValues, duration \in Durations, opens \in BOOLEAN :
           (fps[1] <= 0 \/ duration <= 0)
           /\ on_btnStart_clicked(fps, duration, opens) =>
              /\ lastOp' = "start_invalid"
              /\ UNCHANGED <<picoPort, sensorVars, captureVars>>
      ]_vars

\* an invalid start made while a session was running with a row written
C8_Witness ==
    /\ lastOp = "start_invalid"
    /\ csvTimer.active /\ csvFileOpen /\ csvRunning
    /\ Len(csvRows) = 1 /\ progressValue = 1

\* C9: under a timer that keeps firing, an armed timer is eventually
\* disarmed with the file closed, unless another start re-arms it first; and
\* while the timer is disarmed its lambda does not run.
C9_SessionEnds ==
    /\ (csvTimer.active ~>
          ((~csvTimer.active /\ ~csvFileOpen /\ ~csvRunning)
           \/ lastOp \in StartOps))
    /\ [][ ~csvTimer.active => lastOp' \notin TickOps ]_vars

\* the lambda has ended a session of two frames by itself
C9_Witness ==
    /\ lastOp = "tick_done" /\ ~csvTimer.active /\ ~csvFileOpen
    /\ csvTimer.framesCaptured = 2 /\ csvTimer.totalFrames = 2

\* an optional sign and then decimal digits, whitespace around them allowed
IsInteger(f) ==
    LET t    == trimmed(f)
        body == IF t # <<>> /\ t[1] \in {"+", "-"} THEN Tail(t) ELSE t
    IN  body # <<>> /\ \A i \in 1 .. Len(body) : body[i] \in Digits

\* the read is three integers separated by two commas
ThreeIntegers(p) ==
    LET q == trimmed(p)
        c == { i \in 1 .. Len(q) : q[i] = "," }
    IN  /\ Cardinality(c) = 2
        /\ LET i == CHOOSE k \in c : \A m \in c : k <= m
               j == CHOOSE k \in c : \A m \in c : k >= m
           IN  /\ IsInteger(SubSeq(q, 1, i - 1))
               /\ IsInteger(SubSeq(q, i + 1, j - 1))
               /\ IsInteger(SubSeq(q, j + 1, Len(q)))

MalformedSamples == {FAlpha, FTwo, FFour}

\* C10: readData accepts a read exactly when it is three comma-separated
\* integers; a read it drops changes no display and no offset, and a read it
\* accepts sets all three displays (raw value minus offset) and no offset.
C10_MalformedReadIgnored ==
    /\ [](\A p \in AllReads :
            FrameAccepted(split(trimmed(p))) <=> ThreeIntegers(p))
    /\ [][ /\ (lastOp' = "read_drop" =>
                 UNCHANGED <<botLeftNum, topLeftNum, topRightNum, lastRaw,
                             zeroBotLeft, zeroTopLeft, zeroTopRight>>)
           /\ (lastOp' = "read_ok" =>
                 /\ botLeftNum' = lastRaw'[1] - zeroBotLeft
                 /\ topLeftNum' = lastRaw'[2] - zeroTopLeft
                 /\ topRightNum' = lastRaw'[3] - zeroTopRight
                 /\ UNCHANGED <<zeroBotLeft, zeroTopLeft, zeroTopRight>>)
           /\ \A p \in MalformedSamples :
                 readData(p) =>
                    UNCHANGED <<botLeftNum, topLeftNum, topRightNum, lastRaw,
                                zeroBotLeft, zeroTopLeft, zeroTopRight>>
         ]_vars

\* a read was dropped while the displays showed the frame "-1, 2,1" at
\* offsets 50,50,50
C10_Witness ==
    /\ lastOp = "read_drop"
    /\ lastRaw = <<-1, 2, 1>>
    /\ botLeftNum = -51 /\ topLeftNum = -48 /\ topRightNum = -49
    /\ zeroBotLeft = 50 /\ zeroTopLeft = 50 /\ zeroTopRight = 50

PicoOps == {"pico_ok", "pico_fail", "close"}

\* C11: a timer tick of a recording session appends one row whatever the
\* state of the trigger port, and sends one trigger byte exactly when the
\* port is open; opening, failing to open or closing the trigger port changes
\* nothing of the session; so a session that opened its file still ends by
\* itself with exactly totalFrames rows.
C11_TriggerNeverAffectsRows ==
    [][ /\ (lastOp' = "tick_frame" /\ csvRunning /\ csvFileOpen =>
              Len(csvRows') = Len(csvRows) + 1)
        /\ (lastOp' = "tick_frame" =>
              triggerBytes' = IF picoPort = "open" THEN triggerBytes + 1
                                                   ELSE triggerBytes)
        /\ (triggerBytes' > triggerBytes =>
              lastOp' = "tick_frame" /\ picoPort = "open")
        /\ (lastOp' \in PicoOps => UNCHANGED captureVars)
        /\ (lastOp' = "tick_done" /\ csvHeader' = 1 =>
              Len(csvRows') = csvTimer'.totalFrames /\ ~csvTimer'.active)
      ]_vars

\* a session of two rows ended by itself; the trigger port was open for one
\* of its ticks and not for the other
C11_Witness ==
    /\ lastOp = "tick_done" /\ csvHeader = 1
    /\ Len(csvRows) = 2 /\ csvTimer.totalFrames = 2
    /\ triggerBytes = 1 /\ picoPort = "null"

\* C12: stop() with the timer disarmed and the file closed changes nothing,
\* so a second stop() leaves the state the first one left.
C12_StopIsIdempotent ==
    [][ lastOp' = "stop" /\ ~csvTimer.active /\ ~csvFileOpen =>
          /\ UNCHANGED captureVars
          /\ UNCHANGED <<picoPort, sensorVars>>
          /\ ~csvRunning
      ]_vars

\* stop() after a session of two rows has ended by itself
C12_Witness ==
    /\ lastOp = "stop" /\ ~csvTimer.active /\ ~csvTimer.due /\ ~csvFileOpen
    /\ csvTimer.totalFrames = 2 /\ csvTimer.framesCaptured = 2
    /\ Len(csvRows) = 2 /\ progressValue = 2

\* m is max(1, 1000/fps rounded to the nearest integer, halves away from
\* zero) as an int; where 1000/fps lies beyond the range of int, the nearest
\* int to it is IntMax
IsRoundedInterval(m, fps) ==
    IF IntervalOverflows(fps)
    THEN m = IntMax
    ELSE LET num == 1000 * fps[2]
             den == fps[1]
         IN  IF 2 * num < 3 * den
             THEN m = 1
             ELSE (2 * m - 1) * den <= 2 * num /\ 2 * num < (2 * m + 1) * den

\* C13: every start with fps > 0 and duration > 0 arms the timer with
\* intervalMs = max(1, round(1000 / fps)) >= 1, also for the smallest frame
\* rates, where 1000 / fps exceeds the range of int.
C13_IntervalIsRounded ==
    [][ \A fps \in IntervalRates, duration \in Durations, opens \in BOOLEAN :
          fps[1] > 0 /\ duration > 0 /\ on_btnStart_clicked(fps, duration, opens)
             => /\ csvTimer'.intervalMs >= 1
                /\ IsRoundedInterval(csvTimer'.intervalMs, fps)
      ]_vars

zeroOffsets == <<zeroBotLeft, zeroTopLeft, zeroTopRight>>
displayed   == <<botLeftNum, topLeftNum, topRightNum>>
AllZero     == <<0, 0, 0>>
SensorOpenOps == {"open_ok", "open_fail"}
OffsetKeepingOps ==
    {"read_ok", "read_drop", "start_ok", "restart_ok", "start_csvfail",
     "start_invalid", "stop", "timer_due", "tick_frame", "tick_done",
     "pico_ok", "pico_fail"}

\* C14: the three offsets change only by zero, by the handler that opens the
\* sensor port (whether or not the port opens) and by closing the ports while
\* a sensor port exists, the last two setting them to (0,0,0); reads, start,
\* stop, timer ticks, opening the trigger port, and closing the ports while no
\* sensor port exists leave them unchanged.
C14_OffsetsChangeOnlyByZeroAndReset ==
    [][ /\ (lastOp' \in OffsetKeepingOps => UNCHANGED zeroOffsets)
        /\ (lastOp' \in SensorOpenOps => zeroOffsets' = AllZero)
        /\ (lastOp' = "close" =>
              zeroOffsets' = IF serialPort # "null" THEN AllZero
                                                    ELSE zeroOffsets)
      ]_vars

\* a timer tick wrote a row and sent a trigger byte while an offset was 70
C14_Witness ==
    /\ lastOp = "tick_frame" /\ picoPort = "open" /\ triggerBytes = 1
    /\ zeroBotLeft = 70 /\ Len(csvRows) = 1

\* C14 as written: closing the ports is among the operations that leave the
\* offsets unchanged.
C14_AsWritten ==
    [][ /\ (lastOp' \in OffsetKeepingOps \cup {"close"} => UNCHANGED zeroOffsets)
        /\ (lastOp' = "open_ok" => zeroOffsets' = AllZero)
      ]_vars

\* C15: when the handler that opens the sensor port has run, with or without
\* an earlier port and whether or not the new port opened, offsets and
\* displayed values are all 0; and the first frame accepted after it is
\* displayed as its raw values.
C15_OpenResetsOffsets ==
    [][ /\ (lastOp' \in SensorOpenOps =>
              zeroOffsets' = AllZero /\ displayed' = AllZero /\ lastRaw' = <<>>)
        /\ (lastRaw = <<>> /\ lastOp' = "read_ok" =>
              zeroOffsets' = AllZero /\ displayed' = lastRaw')
      ]_vars

\* the sensor port has just been opened
C15_Witness ==
    /\ lastOp = "open_ok" /\ serialPort = "open"
    /\ zeroOffsets = AllZero /\ displayed = AllZero /\ lastRaw = <<>>

C17_NothingAfterStop ==
    [][ /\ (lastOp' = "stop" =>
              ~csvTimer'.active /\ ~csvFileOpen' /\ ~csvRunning')
        /\ (~csvTimer.active /\ lastOp' \notin StartOps =>
              /\ lastOp' \notin TickOps
              /\ UNCHANGED <<csvRows, triggerBytes, progressValue>>
              /\ csvTimer'.framesCaptured = csvTimer.framesCaptured)
      ]_vars

\* stop() came after one of two frames while the next timeout was due and the
\* trigger port open; the handlers run since then left the session as it was
C17_Witness ==
    /\ lastOp \in {"pico_ok", "read_ok", "zero"}
    /\ ~csvTimer.active /\ csvTimer.due /\ picoPort = "open"
    /\ csvTimer.totalFrames = 2 /\ csvTimer.framesCaptured = 1
    /\ Len(csvRows) = 1 /\ triggerBytes = 1 /\ progressValue = 1
    /\ ~csvFileOpen

\* C18: when the frame "1,2,34" arrives as the two reads "1,2,3" and "4",
\* neither read updates the displayed sample.
C18_SplitFrameNeverDisplayed ==
    [][ /\ (readData(FLead) => UNCHANGED <<displayed, lastRaw>>)
        /\ (readData(FTail) => UNCHANGED <<displayed, lastRaw>>)
      ]_vars

\* C19: the progress value and the trigger bytes of the current session never
\* exceed the number of data rows of its file, and the progress value equals
\* that number.
C19_CountedFramesHaveRows ==
    /\ progressValue <= Len(csvRows)
    /\ triggerBytes <= Len(csvRows)
    /\ progressValue = Len(csvRows)

====
